---- MODULE Spec2Model ----
(***************************************************************************)
(* Model of imagePreProcessing.py: the batch image validation pipeline     *)
(* pre_processsing = get_files; check_files; separate_files;               *)
(* copy_valid_files; write_log_file.                                       *)
(*                                                                         *)
(* A decoded image is a record [bands, w, h, px]: px is the pixel plane as *)
(* a sequence of rows of 50x50-pixel blocks of one grey level, so w and h  *)
(* are 50 times the number of columns and rows.  A path is a record        *)
(* [parts, stem, ext]: parts is the directory as a sequence of components, *)
(* stem the rank of the file name in string order, ext the text after the  *)
(* last dot ("" when the name has no dot).                                 *)
(***************************************************************************)
EXTENDS Integers, Sequences, FiniteSets, TLC

VARIABLES input_dir, dir, pc, sorted_files, checked_files, valid_files,
          invalid_files, out, log, ret, run, first

vars == <<input_dir, dir, pc, sorted_files, checked_files, valid_files,
          invalid_files, out, log, ret, run, first>>

\* ------------------------------------------------------------ bounds
MaxFiles == 3
MaxRuns == 2

\* ------------------------------------------------- program constants
MinFileSize == 10000
MinDim == 100
MaxArrayDims == 2
NameWidth == 6

\* ------------------------------------------------------ Python values
None == [tag |-> "None"]
PyInt(n) == [tag |-> "int", val |-> n]
PyTuple(t) == [tag |-> "tuple", val |-> t]
ValueError == [tag |-> "ValueError"]
NoImage == [bands |-> 0, w |-> 0, h |-> 0, px |-> <<>>]

\* ------------------------------------------------------- the inputs
Img(bands, px) ==
  [bands |-> bands, w |-> 50 * Len(px[1]), h |-> 50 * Len(px), px |-> px]

pxA == <<  <<0, 1>>, <<1, 0>>  >>
pxB == <<  <<0, 1>>, <<1, 1>>  >>
pxFlat == <<  <<1, 1>>, <<1, 1>>  >>
pxNarrow == <<  <<0>>, <<1>>  >>
pxShort == <<  <<0, 1>>  >>
pxWide == <<  <<0, 1, 1>>, <<1, 0, 0>>  >>

FileKinds ==
  { [ext |-> "jpg",  size |-> 10001, img |-> NoImage],
    [ext |-> "png",  size |-> 10001, img |-> NoImage],
    [ext |-> "",     size |-> 10001, img |-> Img(1, pxA)],
    [ext |-> "png",  size |-> 10001, img |-> Img(1, pxA)],
    [ext |-> "png",  size |-> 10000, img |-> Img(1, pxFlat)],
    [ext |-> "jpg",  size |-> 10000, img |-> Img(1, pxA)],
    [ext |-> "JPEG", size |-> 10000, img |-> Img(1, pxFlat)],
    [ext |-> "JPEG", size |-> 10001, img |-> Img(1, pxFlat)],
    [ext |-> "jpg",  size |-> 10001, img |-> Img(1, pxA)],
    [ext |-> "Jpg",  size |-> 10001, img |-> Img(1, pxB)],
    [ext |-> "jpg",  size |-> 10001, img |-> Img(1, pxNarrow)],
    [ext |-> "jpg",  size |-> 10001, img |-> Img(1, pxShort)],
    [ext |-> "jpg",  size |-> 10001, img |-> Img(1, pxWide)],
    [ext |-> "jpg",  size |-> 10001, img |-> Img(3, pxA)],
    [ext |-> "JPG",  size |-> 10001, img |-> Img(3, pxFlat)],
    [ext |-> "jpg",  size |-> 9999,  img |-> Img(1, pxB)] }

InputDirs == { <<"/", "data">>, <<"data">> }
cwd == <<"/", "work">>

Directories == UNION { [1..n -> FileKinds] : n \in 0..MaxFiles }

\* ------------------------------------------------------------- paths
join(d, stem) == [parts |-> d, stem |-> stem, ext |-> dir[stem].ext]

abspath(p) == IF Len(p) > 0 /\ p[1] = "/" THEN p ELSE cwd \o p

IsPrefix(b, p) ==
  /\ Len(b) <= Len(p)
  /\ \A i \in 1..Len(b) : b[i] = p[i]

\* Path(p).relative_to(base): the path below base, or ValueError
relative_to(p, base) ==
  IF IsPrefix(base, p.parts)
    THEN [parts |-> SubSeq(p.parts, Len(base) + 1, Len(p.parts)),
          stem |-> p.stem, ext |-> p.ext]
    ELSE ValueError

lower(e) ==
  CASE e = "JPEG" -> "jpeg"
    [] e = "JPG" -> "jpg"
    [] e = "Jpg" -> "jpg"
    [] OTHER -> e

\* the file a path names
File(p) == dir[p.stem]

\* --------------------------------------------------------- get_files
\* glob '**/*.*': the names that hold a dot
glob_matches == { join(input_dir, s) : s \in { t \in DOMAIN dir : dir[t].ext # "" } }

RECURSIVE Orders(_)
Orders(S) ==
  IF S = {} THEN { <<>> }
  ELSE UNION { { <<x>> \o o : o \in Orders(S \ {x}) } : x \in S }

PathLess(p, q) == p.stem < q.stem

RECURSIVE sorted(_)
sorted(s) ==
  IF Len(s) = 0 THEN <<>>
  ELSE LET m == CHOOSE i \in 1..Len(s) : \A j \in 1..Len(s) : j # i => PathLess(s[i], s[j])
       IN <<s[m]>> \o sorted(SubSeq(s, 1, m - 1) \o SubSeq(s, m + 1, Len(s)))

\* get_files without the call of sorted: the listing in the order glob gave it
get_files_unsorted(listing) == listing

get_files(listing) == sorted(listing)

\* ----------------------------------------------------- validate_file
CanOpen(f) == f.img # NoImage

allowed_extensions == { "jpg", "JPG", "JPEG", "jpeg" }

file_has_allowed_extension(p) == lower(p.ext) \in allowed_extensions

\* the size test with >= in place of >
file_has_allowed_size_ge(f) == f.size >= MinFileSize

file_has_allowed_size(f) == f.size > MinFileSize

RECURSIVE SumSeq(_)
SumSeq(s) == IF Len(s) = 0 THEN 0 ELSE s[1] + SumSeq(Tail(s))

RECURSIVE Flatten(_)
Flatten(rows) == IF Len(rows) = 0 THEN <<>> ELSE rows[1] \o Flatten(Tail(rows))

\* ImageStat.Stat(img).var summed over the bands, times n*n (n the number of
\* blocks): n * sum(x^2) - sum(x)^2 for every band
SumVar(im) ==
  LET cells == Flatten(im.px)
      n == Len(cells)
      sq == [i \in 1..n |-> cells[i] * cells[i]]
  IN im.bands * (n * SumSeq(sq) - SumSeq(cells) * SumSeq(cells))

\* the variance test with >= in place of >
file_has_variance_ge(f) == SumVar(f.img) >= 0

file_has_variance(f) == SumVar(f.img) > 0

file_has_dims(f) == f.img.w >= MinDim /\ f.img.h >= MinDim

\* np.array(img).shape: (h, w) for one band, (h, w, bands) otherwise
shape(im) == IF im.bands = 1 THEN <<im.h, im.w>> ELSE <<im.h, im.w, im.bands>>

Min(a, b) == IF a < b THEN a ELSE b

\* ImageChops.difference(im1, im2): ValueError when the band layouts differ,
\* else the absolute difference over the common top-left region
difference(im1, im2) ==
  IF im1.bands # im2.bands THEN ValueError
  ELSE LET rows == Min(Len(im1.px), Len(im2.px))
           cols == Min(Len(im1.px[1]), Len(im2.px[1]))
       IN [tag |-> "image",
           px |-> [r \in 1..rows |-> [c \in 1..cols |->
             IF im1.px[r][c] >= im2.px[r][c] THEN im1.px[r][c] - im2.px[r][c]
             ELSE im2.px[r][c] - im1.px[r][c]]]]

\* Image.getbbox(): the bounding box of the non-zero region, or None
getbbox(d) ==
  LET nz == { rc \in (1..Len(d)) \X (1..Len(d[1])) : d[rc[1]][rc[2]] # 0 }
  IN IF nz = {} THEN None
     ELSE LET r0 == CHOOSE r \in {rc[1] : rc \in nz} : \A x \in nz : r <= x[1]
              r1 == CHOOSE r \in {rc[1] : rc \in nz} : \A x \in nz : r >= x[1]
              c0 == CHOOSE c \in {rc[2] : rc \in nz} : \A x \in nz : c <= x[2]
              c1 == CHOOSE c \in {rc[2] : rc \in nz} : \A x \in nz : c >= x[2]
          IN PyTuple(<<50 * (c0 - 1), 50 * (r0 - 1), 50 * c1, 50 * r1>>)

\* is_equal with the except branch returning None
is_equal_error_is_none(im1, im2) ==
  LET d == difference(im1, im2)
  IN IF d = ValueError THEN None ELSE getbbox(d.px)

is_equal(im1, im2) ==
  LET d == difference(im1, im2)
  IN IF d = ValueError THEN PyInt(6) ELSE getbbox(d.px)

\* whether the loop over checked_files compares the candidate with this entry
IsCompared(image) == image[2] # 3 /\ image[2] # 1

RECURSIVE duplicate_scan(_, _, _)
duplicate_scan(im1, checked, i) ==
  IF i > Len(checked) THEN 0
  ELSE IF IsCompared(checked[i])
            /\ is_equal(im1, File(checked[i][1]).img) = None
         THEN 6
         ELSE duplicate_scan(im1, checked, i + 1)

\* validate_file with the extension test ahead of Image.open
validate_file_extension_first(file_path, checked) ==
  LET f == File(file_path)
  IN IF ~file_has_allowed_extension(file_path) THEN 1
     ELSE IF ~CanOpen(f) THEN 3
     ELSE IF ~file_has_allowed_size(f) THEN 2
     ELSE IF ~file_has_variance(f) THEN 4
     ELSE IF ~file_has_dims(f) \/ Len(shape(f.img)) > MaxArrayDims THEN 5
     ELSE duplicate_scan(f.img, checked, 1)

validate_file(file_path, checked) ==
  LET f == File(file_path)
  IN IF ~CanOpen(f) THEN 3
     ELSE IF ~file_has_allowed_extension(file_path) THEN 1
     ELSE IF ~file_has_allowed_size(f) THEN 2
     ELSE IF ~file_has_variance(f) THEN 4
     ELSE IF ~file_has_dims(f) \/ Len(shape(f.img)) > MaxArrayDims THEN 5
     ELSE duplicate_scan(f.img, checked, 1)

\* ---------------------------------------------------- separate_files
IsValid(checked) == checked[2] = 0

valid_of(checked) == SelectSeq(checked, IsValid)

IsInvalid(checked) == ~IsValid(checked)

invalid_of(checked) == SelectSeq(checked, IsInvalid)

\* -------------------------------------------------- copy_valid_files
RECURSIVE Digits(_)
Digits(n) == IF n < 10 THEN <<n>> ELSE Digits(n \div 10) \o <<n % 10>>

RECURSIVE PadLeft(_, _)
PadLeft(ds, width) == IF Len(ds) >= width THEN ds ELSE PadLeft(<<0>> \o ds, width)

\* the name formed from i in place of i + 1
destination_from_zero(i) == [digits |-> PadLeft(Digits(i), NameWidth), ext |-> "jpg"]

\* f'{i+1:06d}.jpg' for the 0-based index i
destination(i) == [digits |-> PadLeft(Digits(i + 1), NameWidth), ext |-> "jpg"]

copied(valid) ==
  [d \in { destination(i - 1) : i \in 1..Len(valid) } |->
     File(valid[CHOOSE i \in 1..Len(valid) : destination(i - 1) = d][1])]

\* ---------------------------------------------------- write_log_file
log_line(inv) ==
  [path |-> relative_to(inv[1], abspath(input_dir)), code |-> inv[2]]

log_raises(invalid) ==
  \E i \in 1..Len(invalid) :
     relative_to(invalid[i][1], abspath(input_dir)) = ValueError

log_lines(invalid) == [i \in 1..Len(invalid) |-> log_line(invalid[i])]

\* ------------------------------------------------------ the pipeline
Init ==
  /\ input_dir \in InputDirs
  /\ dir \in Directories
  /\ pc = "get_files"
  /\ sorted_files = <<>>
  /\ checked_files = <<>>
  /\ valid_files = <<>>
  /\ invalid_files = <<>>
  /\ out = <<>>
  /\ log = <<>>
  /\ ret = None
  /\ run = 1
  /\ first = None

GetFiles ==
  /\ pc = "get_files"
  /\ \E listing \in Orders(glob_matches) : sorted_files' = get_files(listing)
  /\ pc' = "check_files"
  /\ UNCHANGED <<input_dir, dir, checked_files, valid_files, invalid_files,
                 out, log, ret, run, first>>

\* one iteration of the loop of check_files
CheckFile ==
  /\ pc = "check_files"
  /\ Len(checked_files) < Len(sorted_files)
  /\ LET file_name == sorted_files[Len(checked_files) + 1]
         nr_of_error == validate_file(file_name, checked_files)
     IN checked_files' = Append(checked_files, <<file_name, nr_of_error>>)
  /\ UNCHANGED <<input_dir, dir, pc, sorted_files, valid_files, invalid_files,
                 out, log, ret, run, first>>

SeparateFiles ==
  /\ pc = "check_files"
  /\ Len(checked_files) = Len(sorted_files)
  /\ valid_files' = valid_of(checked_files)
  /\ invalid_files' = invalid_of(checked_files)
  /\ pc' = "copy_valid_files"
  /\ UNCHANGED <<input_dir, dir, sorted_files, checked_files, out, log, ret,
                 run, first>>

CopyValidFiles ==
  /\ pc = "copy_valid_files"
  /\ out' = copied(valid_files) @@ out
  /\ pc' = "write_log_file"
  /\ UNCHANGED <<input_dir, dir, sorted_files, checked_files, valid_files,
                 invalid_files, log, ret, run, first>>

\* open(logfile, 'w') truncates; the first line whose relative path cannot be
\* formed raises and the exception leaves pre_processsing
WriteLogFile ==
  /\ pc = "write_log_file"
  /\ IF log_raises(invalid_files)
       THEN /\ log' = <<>>
            /\ pc' = "raised"
       ELSE /\ log' = log_lines(invalid_files)
            /\ pc' = "return"
  /\ UNCHANGED <<input_dir, dir, sorted_files, checked_files, valid_files,
                 invalid_files, out, ret, run, first>>

Return ==
  /\ pc = "return"
  /\ ret' = PyInt(Len(valid_files))
  /\ pc' = "done"
  /\ UNCHANGED <<input_dir, dir, sorted_files, checked_files, valid_files,
                 invalid_files, out, log, run, first>>

Next ==
  \/ GetFiles
  \/ CheckFile
  \/ SeparateFiles
  \/ CopyValidFiles
  \/ WriteLogFile
  \/ Return

Spec == Init /\ [][Next]_vars

\* what a finished call of pre_processsing leaves behind
Outcome ==
  [checked |-> checked_files, valid |-> valid_files, invalid |-> invalid_files,
   out |-> out, log |-> log, ret |-> ret, pc |-> pc]

Finished == pc \in {"done", "raised"}

\* pre_processsing called again on the same, unchanged input directory: the
\* locals start afresh, the output directory and the log file stay on disk
Rerun ==
  /\ Finished
  /\ run < MaxRuns
  /\ first' = Outcome
  /\ run' = run + 1
  /\ pc' = "get_files"
  /\ sorted_files' = <<>>
  /\ checked_files' = <<>>
  /\ valid_files' = <<>>
  /\ invalid_files' = <<>>
  /\ ret' = None
  /\ UNCHANGED <<input_dir, dir, out, log>>

NextRerun ==
  \/ Next
  \/ Rerun

SpecRerun == Init /\ [][NextRerun]_vars

\* ------------------------------------------------ the rules, as stated
\* The classification of the n-th scanned file and the file itself
CodeOf(n) == checked_files[n][2]

FileOf(n) == File(checked_files[n][1])

Scanned == 1..Len(checked_files)

Undecodable(f) == f.img = NoImage

JpgExtension(e) == e \in {"jpg", "jpeg", "JPG", "JPEG", "Jpg", "Jpeg"}

TooSmallFile(f) == ~(f.size > 10000)

SolidColor(im) ==
  \A r1 \in 1..Len(im.px), r2 \in 1..Len(im.px) :
    \A c1 \in 1..Len(im.px[r1]), c2 \in 1..Len(im.px[r2]) :
      im.px[r1][c1] = im.px[r2][c2]

BadDimensionsOrChannels(im) == im.w < 100 \/ im.h < 100 \/ im.bands > 1

PassesRules1To5(f) ==
  /\ ~Undecodable(f)
  /\ JpgExtension(f.ext)
  /\ ~TooSmallFile(f)
  /\ ~SolidColor(f.img)
  /\ ~BadDimensionsOrChannels(f.img)

\* pixel-for-pixel identical decoded images: same layout, same size, same data
PixelIdentical(a, b) == a # NoImage /\ a = b

SameSize(a, b) == a.w = b.w /\ a.h = b.h

\* the two images hold the same value at every position both of them have
AgreeWhereBothDefined(a, b) ==
  \A r \in 1..Len(a.px) : \A c \in 1..Len(a.px[r]) :
    (r <= Len(b.px) /\ c <= Len(b.px[r])) => a.px[r][c] = b.px[r][c]

\* The tests of validate_file that do not look at earlier files come in the
\* order 3, 1, 2, 4, 5, and a file passing these five is 6 or 0.
RulesOneToFiveInOrder ==
  \A n \in Scanned :
    LET f == FileOf(n)
    IN IF Undecodable(f) THEN CodeOf(n) = 3
       ELSE IF ~JpgExtension(f.ext) THEN CodeOf(n) = 1
       ELSE IF TooSmallFile(f) THEN CodeOf(n) = 2
       ELSE IF SolidColor(f.img) THEN CodeOf(n) = 4
       ELSE IF BadDimensionsOrChannels(f.img) THEN CodeOf(n) = 5
       ELSE CodeOf(n) \in {0, 6}

\* C1: every scanned file carries the code of the first failing rule in the
\* order 3, 1, 2, 4, 5, 6 and 0 when no rule fails: a file passing the first
\* five is 6 only if it is pixel-identical to some earlier decodable file and
\* 0 only if it is pixel-identical to no earlier accepted file.
C1_FirstFailingRuleWins ==
  \A n \in Scanned :
    LET f == FileOf(n)
    IN IF Undecodable(f) THEN CodeOf(n) = 3
       ELSE IF ~JpgExtension(f.ext) THEN CodeOf(n) = 1
       ELSE IF TooSmallFile(f) THEN CodeOf(n) = 2
       ELSE IF SolidColor(f.img) THEN CodeOf(n) = 4
       ELSE IF BadDimensionsOrChannels(f.img) THEN CodeOf(n) = 5
       ELSE /\ CodeOf(n) \in {0, 6}
            /\ CodeOf(n) = 6 =>
                 \E m \in 1..(n - 1) : PixelIdentical(f.img, FileOf(m).img)
            /\ CodeOf(n) = 0 =>
                 \A m \in 1..(n - 1) :
                   CodeOf(m) = 0 => ~PixelIdentical(f.img, FileOf(m).img)

\* C2: every file classified 6 is pixel-identical to an earlier file
\* classified 0, so a rejected file never makes a later file a duplicate.
C2_PoolIsTheAcceptedFiles ==
  \A n \in Scanned :
    CodeOf(n) = 6 =>
      \E m \in 1..(n - 1) :
        CodeOf(m) = 0 /\ PixelIdentical(FileOf(n).img, FileOf(m).img)

\* C3: of two identical images that pass rules 1-5, with no third identical
\* file in the input, the one scanned first is 0 and the other is 6.
C3_FirstOccurrenceWins ==
  \A a \in Scanned, b \in Scanned :
    ( /\ a < b
      /\ PassesRules1To5(FileOf(a)) /\ PassesRules1To5(FileOf(b))
      /\ PixelIdentical(FileOf(a).img, FileOf(b).img)
      /\ \A s \in DOMAIN dir :
           s \notin {checked_files[a][1].stem, checked_files[b][1].stem}
             => ~PixelIdentical(dir[s].img, FileOf(a).img) )
    => (CodeOf(a) = 0 /\ CodeOf(b) = 6)

\* C4: a decodable file with a jpg/jpeg extension whose size is not above
\* 10000 bytes is classified 2, whatever its pixels and whatever came before.
C4_SmallFileIsTwo ==
  \A n \in Scanned :
    ( /\ ~Undecodable(FileOf(n))
      /\ JpgExtension(FileOf(n).ext)
      /\ FileOf(n).size <= 10000 )
    => CodeOf(n) = 2

\* a file of exactly 10000 bytes, solid-colored and following a file with the
\* same pixels, got 2
C4_Witness ==
  \E n \in Scanned :
    /\ FileOf(n).size = 10000
    /\ JpgExtension(FileOf(n).ext)
    /\ SolidColor(FileOf(n).img)
    /\ CodeOf(n) = 2
    /\ \E m \in 1..(n - 1) : PixelIdentical(FileOf(m).img, FileOf(n).img)

\* C5 as stated: every decodable solid-color single-plane jpg at least 100
\* by 100 of at least 10000 bytes is classified 4.
C5_SolidColorAtLeast10000 ==
  \A n \in Scanned :
    ( /\ ~Undecodable(FileOf(n))
      /\ JpgExtension(FileOf(n).ext)
      /\ SolidColor(FileOf(n).img)
      /\ ~BadDimensionsOrChannels(FileOf(n).img)
      /\ FileOf(n).size >= 10000 )
    => CodeOf(n) = 4

\* C5 amended: every decodable solid-color single-plane jpg at least 100 by
\* 100 of more than 10000 bytes is classified 4.
C5_SolidColorAbove10000 ==
  \A n \in Scanned :
    ( /\ ~Undecodable(FileOf(n))
      /\ JpgExtension(FileOf(n).ext)
      /\ SolidColor(FileOf(n).img)
      /\ ~BadDimensionsOrChannels(FileOf(n).img)
      /\ FileOf(n).size > 10000 )
    => CodeOf(n) = 4

\* a solid-color 100x100 single-plane jpg of 10001 bytes got 4
C5_Witness ==
  \E n \in Scanned :
    /\ JpgExtension(FileOf(n).ext)
    /\ SolidColor(FileOf(n).img)
    /\ FileOf(n).img.bands = 1
    /\ FileOf(n).img.w = 100 /\ FileOf(n).img.h = 100
    /\ FileOf(n).size = 10001
    /\ CodeOf(n) = 4

\* the number of accepted files among the first n scanned
AcceptedUpTo(n) == Cardinality({ m \in 1..n : CodeOf(m) = 0 })

NumAccepted == AcceptedUpTo(Len(checked_files))

NumRejected == Cardinality({ m \in Scanned : CodeOf(m) # 0 })

\* i written with six digits (i below 10) and the extension jpg
SixDigitName(i) == [digits |-> <<0, 0, 0, 0, 0, i>>, ext |-> "jpg"]

Copied == pc \in {"write_log_file", "return", "done", "raised"}

\* C6: once copy_valid_files has run, the output names are exactly
\* 000001.jpg .. n for the n accepted files, and the i-th accepted file in
\* traversal order is the one stored under the i-th name.
C6_OutputNamesAreSequential ==
  Copied =>
    /\ DOMAIN out = { SixDigitName(i) : i \in 1..NumAccepted }
    /\ \A n \in Scanned :
         CodeOf(n) = 0 => out[SixDigitName(AcceptedUpTo(n))] = FileOf(n)

\* two files were copied with a rejected file scanned between them
C6_Witness ==
  /\ Copied
  /\ \E a \in Scanned, r \in Scanned, b \in Scanned :
       /\ a < r /\ r < b
       /\ CodeOf(a) = 0 /\ CodeOf(r) # 0 /\ CodeOf(b) = 0
       /\ FileOf(a) # FileOf(b)
       /\ out[SixDigitName(2)] = FileOf(b)

\* the m-th scanned file that was rejected, as <<name rank, code>>
RECURSIVE RejectedFrom(_)
RejectedFrom(n) ==
  IF n > Len(checked_files) THEN <<>>
  ELSE (IF CodeOf(n) # 0 THEN << <<checked_files[n][1].stem, CodeOf(n)>> >> ELSE <<>>)
         \o RejectedFrom(n + 1)

LoggedLines == [k \in 1..Len(log) |-> <<log[k].path.stem, log[k].code>>]

\* C7: a call of pre_processsing ends by returning the number of files
\* copied, which is the number of files under the input directory minus the
\* number of rejected files, and the log holds one line per rejected file, in
\* traversal order with the file's code, and none for an accepted file.
C7_ReturnCountsAndLogPartition ==
  Finished =>
    /\ ret = PyInt(Cardinality(DOMAIN out))
    /\ Cardinality(DOMAIN out) = Cardinality(DOMAIN dir) - NumRejected
    /\ LoggedLines = RejectedFrom(1)

\* C8: a second call on the same input directory ends with the same
\* classification list, the same accepted and rejected lists, the same
\* output files and the same log as the call before it.
C8_RerunGivesSameOutcome ==
  (run > 1 /\ Finished) => Outcome = first

\* a second call returned after accepting, rejecting and finding a duplicate
C8_Witness ==
  /\ run = 2
  /\ pc = "done"
  /\ \E a \in Scanned, b \in Scanned, c \in Scanned :
       CodeOf(a) = 0 /\ CodeOf(b) = 6 /\ CodeOf(c) \in {1, 2, 3, 4, 5}

\* the comparison of the pair raises: the band layouts do not match
ComparisonRaises(a, b) == a.bands # b.bands

\* A comparison that raises is skipped: a candidate that passes rules 1-5 is
\* 6 whenever some file the scan compares it with is pixel-identical to it,
\* and 0 whenever every comparison raises or finds a differing pixel in the
\* region it looks at.
ErrorPairIsSkipped ==
  \A n \in Scanned :
    PassesRules1To5(FileOf(n)) =>
      /\ (\E m \in 1..(n - 1) :
            IsCompared(checked_files[m]) /\ PixelIdentical(FileOf(n).img, FileOf(m).img))
         => CodeOf(n) = 6
      /\ (\A m \in 1..(n - 1) :
            IsCompared(checked_files[m]) =>
              \/ ComparisonRaises(FileOf(n).img, FileOf(m).img)
              \/ ~AgreeWhereBothDefined(FileOf(n).img, FileOf(m).img))
         => CodeOf(n) = 0

\* a candidate whose first comparison raised was still found to duplicate the
\* file compared next
ErrorPairIsSkipped_Witness ==
  \E n \in Scanned :
    /\ CodeOf(n) = 6
    /\ PassesRules1To5(FileOf(n))
    /\ \E m1 \in 1..(n - 1), m2 \in 1..(n - 1) :
         /\ m1 < m2
         /\ IsCompared(checked_files[m1]) /\ IsCompared(checked_files[m2])
         /\ ComparisonRaises(FileOf(n).img, FileOf(m1).img)
         /\ PixelIdentical(FileOf(n).img, FileOf(m2).img)

\* C9: for a candidate that passes rules 1-5, a comparison that raises counts
\* as no duplicate and the scan goes on: the candidate is 6 whenever some file
\* the scan compares it with (IsCompared) is pixel-identical to it, and 0
\* whenever every such comparison raises or is with an image that is not
\* pixel-identical to it; every listed file is classified before the batch
\* goes on.
C9_ComparisonErrorIsSkipped ==
  /\ \A n \in Scanned :
       PassesRules1To5(FileOf(n)) =>
         /\ (\E m \in 1..(n - 1) :
               IsCompared(checked_files[m]) /\ PixelIdentical(FileOf(n).img, FileOf(m).img))
            => CodeOf(n) = 6
         /\ (\A m \in 1..(n - 1) :
               IsCompared(checked_files[m]) =>
                 \/ ComparisonRaises(FileOf(n).img, FileOf(m).img)
                 \/ ~PixelIdentical(FileOf(n).img, FileOf(m).img))
            => CodeOf(n) = 0
  /\ pc # "check_files" /\ pc # "get_files" => Len(checked_files) = Len(sorted_files)

\* C10: a candidate whose width or height differs from that of every
\* earlier decodable file is not classified 6.
C10_DifferentSizeNeverDuplicate ==
  \A n \in Scanned :
    (\A m \in 1..(n - 1) :
       ~Undecodable(FileOf(m)) => ~SameSize(FileOf(n).img, FileOf(m).img))
    => CodeOf(n) # 6

====
